---- MODULE Spec2Model ----
(***************************************************************************)
(* Retrieval-augmented answering service (ServerAi).                       *)
(*                                                                         *)
(* The repository holds two revisions of the server program:               *)
(*   rev = "index"     src/index.ts (lines 1-295): null on embedding       *)
(*                     failure, admin rebuild endpoint, STORE = [] when a  *)
(*                     build throws;                                       *)
(*   rev = "part_000"  src/unnamed/part_000: zero-vector on embedding      *)
(*                     failure, no rebuild endpoint, process.exit(1) when  *)
(*                     a build throws.                                     *)
(* (From line 296 on src/index.ts also carries an earlier copy of the      *)
(* program, without snapshot cache or rebuild endpoint; it is not          *)
(* modelled.)  A behaviour runs one of the two from process start.         *)
(* Node runs every synchronous stretch of code between two awaits without  *)
(* interruption, so each action below is one such stretch.                 *)
(***************************************************************************)
EXTENDS Integers, Sequences, FiniteSets, TLC

VARIABLES
    rev,        \* which revision of the program is running
    envRebuild, \* process.env.REBUILD_STORE === 'true'
    STORE,      \* let STORE: Chunk[]
    cache,      \* the file at CACHE_PATH
    proc,       \* the Node process: "starting" | "listening" | "exited"
    job,        \* per buildStore call: its position and its locals
    rebuildRes, \* per admin rebuild request: the HTTP response sent
    chat,       \* per chat request: its position, locals and response
    nreq,       \* number of HTTP requests accepted so far
    rk,         \* inputs and result of the ranking step checked in isolation
    ck          \* chunkText checked in isolation: its arguments and locals

vars ==
    <<rev, envRebuild, STORE, cache, proc, job, rebuildRes, chat, nreq, rk, ck>>

----------------------------------------------------------------------------
(* Bounds *)

Dim == 2            \* embedding width D used in the model
MaxReq == 2         \* HTTP requests accepted in one behaviour
MaxRankLen == 3     \* longest Collection ranked in SpecRank
MaxK == 2           \* largest k ranked in SpecRank
DefaultSize == 3    \* chunkText window in words, scaled down from 800
DefaultOverlap == 1 \* chunkText overlap in words, scaled down from 120
MaxTextLen == 7     \* longest text, in characters, chunked in SpecChunk
MaxSize == 3        \* largest window size chunked in SpecChunk
MaxOverlap == 3     \* largest overlap chunked in SpecChunk
MaxIter == 5        \* iterations of chunkText's loop followed in SpecChunk

TOP_K == 6

----------------------------------------------------------------------------
(* Values *)

Revs == {"index", "part_000"}

\* Embedding vectors the provider can return (width Dim, non-zero).
Vecs == {[i \in 1..Dim |-> IF i = 1 THEN 1 ELSE 0], [i \in 1..Dim |-> 1]}

\* new Array(3072).fill(0)
ZeroVec == [i \in 1..Dim |-> 0]

\* The value of a missing `embedding` property (undefined).
NoEmb == <<>>

\* A text is a sequence of one-character strings.
WS == " "

Min(a, b) == IF a < b THEN a ELSE b

Sgn(x) == IF x > 0 THEN 1 ELSE IF x < 0 THEN -1 ELSE 0

----------------------------------------------------------------------------
(* chunkText *)

\* Index of the first character of s at or after i that is (is not) white
\* space, Len(s) + 1 when there is none.
RECURSIVE Scan(_, _, _)
Scan(s, i, space) ==
    IF i > Len(s) THEN Len(s) + 1
    ELSE IF (s[i] = WS) = space THEN i
    ELSE Scan(s, i + 1, space)

\* text.split(/\s+/): the pieces between maximal runs of white space, the
\* empty pieces at either end included.
RECURSIVE Split(_)
Split(s) ==
    LET p == Scan(s, 1, TRUE) IN
    IF p > Len(s) THEN <<s>>
    ELSE LET q == Scan(s, p, FALSE) IN
         <<SubSeq(s, 1, p - 1)>> \o Split(SubSeq(s, q, Len(s)))

\* words.join(" ")
RECURSIVE Join(_)
Join(ws) ==
    IF Len(ws) = 0 THEN <<>>
    ELSE IF Len(ws) = 1 THEN ws[1]
    ELSE ws[1] \o <<WS>> \o Join(Tail(ws))

\* The for loop of chunkText from (0-based) index i on; the stride
\* size - overlap is positive for the defaults the program uses.
RECURSIVE ChunkLoop(_, _, _, _)
ChunkLoop(words, size, overlap, i) ==
    IF i >= Len(words) THEN <<>>
    ELSE LET w == Join(SubSeq(words, i + 1, Min(i + size, Len(words)))) IN
         IF i + size >= Len(words) THEN <<w>>
         ELSE <<w>> \o ChunkLoop(words, size, overlap, i + (size - overlap))

\* out.filter(Boolean): the empty string is the only falsy string.
FilterBoolean(out) == SelectSeq(out, LAMBDA w : w # <<>>)

chunkText(text, size, overlap) ==
    FilterBoolean(ChunkLoop(Split(text), size, overlap, 0))

----------------------------------------------------------------------------
(* The data file and its entries *)

\* An entry whose text trims to the empty string (line 92) and one whose
\* text is white space only (a summary of one blank, line 88).
E0 == [source |-> "s0", text |-> <<>>]
E3 == [source |-> "s3", text |-> <<WS>>]
E1 == [source |-> "s1", text |-> <<"a">>]
E2 == [source |-> "s2",
       text |-> <<"a", " ", "b", " ", "a", " ", "b", " ", "a">>]

\* The entries createAndEmbedEntries derives from a readable profile.json.
Docs == {<<>>, <<E0, E3>>, <<E1>>, <<E2>>}

\* for (const e of entries) for (const c of chunkText(e.text)) chunks.push(..)
RECURSIVE Segments(_)
Segments(entries) ==
    IF entries = <<>> THEN <<>>
    ELSE LET e == Head(entries)
             cs == chunkText(e.text, DefaultSize, DefaultOverlap) IN
         [i \in 1..Len(cs) |-> [source |-> e.source, text |-> cs[i]]]
             \o Segments(Tail(entries))

----------------------------------------------------------------------------
(* cosine and the ranking step of POST /api/chat *)

RECURSIVE SumTo(_, _)
SumTo(f, n) == IF n = 0 THEN 0 ELSE f[n] + SumTo(f, n - 1)

\* The three sums of cosine's loop.  The score it returns is the real number
\* dot / (sqrt(na) * sqrt(nb) + 1e-8), kept here as the triple that
\* determines it.
cosine(a, b) ==
    [dot |-> SumTo([i \in 1..Len(a) |-> a[i] * b[i]], Len(a)),
     na  |-> SumTo([i \in 1..Len(a) |-> a[i] * a[i]], Len(a)),
     nb  |-> SumTo([i \in 1..Len(a) |-> b[i] * b[i]], Len(a))]

\* cosine throws a TypeError when b is undefined and a is not empty.
cosineThrows(a, b) == b = NoEmb /\ Len(a) > 0

\* Sign of s - t for two scores.  With P = na * nb the difference has the
\* sign of s.dot * sqrt(t.P) - t.dot * sqrt(s.P) + 1e-8 * (s.dot - t.dot);
\* for the small integers of the model the first term, when it is not zero,
\* outweighs the second.
ScoreCmp(s, t) ==
    LET X == Sgn(s.dot) * s.dot * s.dot * (t.na * t.nb)
        Y == Sgn(t.dot) * t.dot * t.dot * (s.na * s.nb)
    IN  IF X # Y THEN Sgn(X - Y) ELSE Sgn(s.dot - t.dot)

Comparator_Ascending(a, b) == ScoreCmp(a.score, b.score)

\* (a, b) => b.score - a.score
Comparator(a, b) == ScoreCmp(b.score, a.score)

\* Array.prototype.sort is stable: x goes after every element that does not
\* compare greater than it.
RECURSIVE Insert(_, _)
Insert(sorted, x) ==
    IF sorted = <<>> THEN <<x>>
    ELSE IF Comparator(Head(sorted), x) <= 0
         THEN <<Head(sorted)>> \o Insert(Tail(sorted), x)
         ELSE <<x>> \o sorted

RECURSIVE Sort(_)
Sort(xs) ==
    IF xs = <<>> THEN <<>>
    ELSE Insert(Sort(SubSeq(xs, 1, Len(xs) - 1)), xs[Len(xs)])

\* .slice(0, k)
Slice(xs, k) == SubSeq(xs, 1, Min(k, Len(xs)))

\* STORE.map(c => ({...c, score: cosine(qEmb, c.embedding)}))
WithScores(store, qEmb) ==
    [i \in 1..Len(store) |->
        [source |-> store[i].source, text |-> store[i].text,
         embedding |-> store[i].embedding,
         score |-> cosine(qEmb, store[i].embedding)]]

Ranked(store, qEmb, k) == Slice(Sort(WithScores(store, qEmb)), k)

RankThrows(store, qEmb) ==
    \E i \in 1..Len(store) : cosineThrows(qEmb, store[i].embedding)

\* The Collection after the ranking step: map builds a new array and the
\* sort that follows works on that copy.
AfterRank(store, qEmb) == store

----------------------------------------------------------------------------
(* State *)

Main == "main"
RebuildIds == {"r1", "r2"}
JobIds == {Main} \cup RebuildIds
ChatIds == {"q1"}

\* The promise of one embedOne call, and what it resolved to.
Pending == [st |-> "pending", v |-> <<>>]
Null == [st |-> "null", v |-> <<>>]
Val(v) == [st |-> "val", v |-> v]

\* The file at CACHE_PATH.
NoFile == [exists |-> FALSE, parseable |-> FALSE, chunks |-> <<>>]
Garbage == [exists |-> TRUE, parseable |-> FALSE, chunks |-> <<>>]
File(chunks) == [exists |-> TRUE, parseable |-> TRUE, chunks |-> chunks]

GoodChunk ==
    [source |-> "s1", text |-> <<"a">>,
     embedding |-> [i \in 1..Dim |-> IF i = 1 THEN 1 ELSE 0]]
BadChunk == [source |-> "s1", text |-> <<"a">>, embedding |-> NoEmb]

\* What a process can find at CACHE_PATH when it starts.
InitCaches ==
    {NoFile, Garbage, File(<<>>), File(<<GoodChunk>>), File(<<BadChunk>>)}

IdleJob == [pc |-> "idle", chunks |-> <<>>, embeddings |-> <<>>]
NoRes == [status |-> 0, count |-> 0]
IdleChat == [pc |-> "idle", status |-> 0, error |-> "", qEmb |-> Pending,
             ranked |-> <<>>]
IdleRank == [pc |-> "off", coll |-> <<>>, q |-> <<>>, k |-> 0, out |-> <<>>]
IdleChunk == [pc |-> "off", words |-> <<>>, size |-> 0, overlap |-> 0,
              i |-> 0, out |-> <<>>, at |-> <<>>, ret |-> <<>>]

Init ==
    /\ rev \in Revs
    /\ envRebuild \in BOOLEAN
    /\ STORE = <<>>
    /\ cache \in InitCaches
    /\ proc = "starting"
    /\ job = [j \in JobIds |-> IdleJob]
    /\ rebuildRes = [r \in RebuildIds |-> NoRes]
    /\ chat = [q \in ChatIds |-> IdleChat]
    /\ nreq = 0
    /\ rk = IdleRank
    /\ ck = IdleChunk

----------------------------------------------------------------------------
(* embedOne *)

\* What embedOne resolves to when the provider call fails.
embedOneFailure == IF rev = "index" THEN Null ELSE Val(ZeroVec)

\* Everything one embedOne call can resolve to.
embedOne == {Val(v) : v \in Vecs} \cup {embedOneFailure}

----------------------------------------------------------------------------
(* createAndEmbedEntries and buildStore *)

\* embedding && embedding.length > 0
Keeps(e) == e.st = "val" /\ Len(e.v) > 0

\* The filter at the end of createAndEmbedEntries.
RECURSIVE Batched(_, _)
Batched(chunks, embeddings) ==
    IF chunks = <<>> THEN <<>>
    ELSE LET rest == Batched(Tail(chunks), Tail(embeddings)) IN
         IF Keeps(Head(embeddings))
         THEN <<[source |-> Head(chunks).source, text |-> Head(chunks).text,
                 embedding |-> Head(embeddings).v]>> \o rest
         ELSE rest

AllResolved(embeddings) ==
    \A i \in 1..Len(embeddings) : embeddings[i].st # "pending"

ResWith(j, r) ==
    IF j = Main THEN rebuildRes ELSE [rebuildRes EXCEPT ![j] = r]

\* buildStore returns count to its caller: start() begins to listen, the
\* rebuild handler answers 200.
Return(j, jobrec, count) ==
    /\ job' = [job EXCEPT ![j] = jobrec]
    /\ proc' = IF j = Main THEN "listening" ELSE proc
    /\ rebuildRes' = ResWith(j, [status |-> 200, count |-> count])

\* process.exit(1)
Exit(j, jobrec) ==
    /\ job' = [job EXCEPT ![j] = jobrec]
    /\ proc' = "exited"
    /\ rebuildRes' = rebuildRes

\* The catch block of buildStore.
Catch(j, jobrec) ==
    IF rev = "index"
    THEN /\ STORE' = <<>>
         /\ Return(j, jobrec, 0)
    ELSE /\ STORE' = STORE
         /\ Exit(j, jobrec)

\* The try block of buildStore after createAndEmbedEntries has returned:
\* writeFileSync, then the assignment of STORE.  A failed write leaves the
\* file as it was ("denied") or truncated ("partial").
WriteOutcomes == {"ok", "denied", "partial"}

Finish_SkipsWrite(j, chunks, embeddings, wr) ==
    /\ cache' = cache
    /\ STORE' = Batched(chunks, embeddings)
    /\ Return(j, [IdleJob EXCEPT !.pc = "done"],
              Len(Batched(chunks, embeddings)))

Finish(j, chunks, embeddings, wr) ==
    LET newStore == Batched(chunks, embeddings)
        jobrec == [IdleJob EXCEPT !.pc = "done"]
        failed == [IdleJob EXCEPT !.pc = "failed"]
    IN  IF wr = "ok"
        THEN /\ cache' = File(newStore)
             /\ STORE' = newStore
             /\ Return(j, jobrec, Len(newStore))
        ELSE /\ cache' = IF wr = "partial" THEN Garbage ELSE cache
             /\ Catch(j, failed)

\* buildStore from its try block on, up to the await of Promise.all.
BeginBuild(j) ==
    \E readable \in BOOLEAN, d \in Docs, wr \in WriteOutcomes :
        IF ~readable
        THEN /\ cache' = cache
             /\ Catch(j, [IdleJob EXCEPT !.pc = "failed"])
        ELSE LET chunks == Segments(d) IN
             IF chunks = <<>>
             THEN Finish(j, <<>>, <<>>, wr)
             ELSE /\ job' = [job EXCEPT ![j] =
                        [pc |-> "embedding", chunks |-> chunks,
                         embeddings |-> [i \in 1..Len(chunks) |-> Pending]]]
                  /\ rebuildRes' = ResWith(j, NoRes)
                  /\ UNCHANGED <<STORE, cache, proc>>

AwaitMore_Eager(j, embeddings) ==
    /\ job' = [job EXCEPT ![j].embeddings = embeddings]
    /\ STORE' = Batched(job[j].chunks, embeddings)
    /\ UNCHANGED <<cache, proc, rebuildRes>>

\* An embedOne call of a build has settled while others are pending: only
\* the promise changes, the build stays suspended in Promise.all.
AwaitMore(j, embeddings) ==
    /\ job' = [job EXCEPT ![j].embeddings = embeddings]
    /\ UNCHANGED <<STORE, cache, proc, rebuildRes>>

\* One embedOne call of a build settles; the last one lets Promise.all
\* resolve and buildStore run to its end.
EmbedResolve(j, i) ==
    /\ proc # "exited"
    /\ job[j].pc = "embedding"
    /\ i \in 1..Len(job[j].embeddings)
    /\ job[j].embeddings[i] = Pending
    /\ \E e \in embedOne, wr \in WriteOutcomes :
        LET embeddings == [job[j].embeddings EXCEPT ![i] = e] IN
        IF AllResolved(embeddings)
        THEN Finish(j, job[j].chunks, embeddings, wr)
        ELSE AwaitMore(j, embeddings)
    /\ UNCHANGED <<rev, envRebuild, chat, nreq, rk, ck>>

\* const forceRebuild = force || process.env.REBUILD_STORE === 'true'
\* (part_000 has no parameter: its only call is the one at start)
forceRebuild(force) == force \/ envRebuild

LoadsCache_IgnoresForce(force) == cache.exists

\* if (!forceRebuild && fs.existsSync(CACHE_PATH))
LoadsCache(force) == ~forceRebuild(force) /\ cache.exists

\* buildStore(force) up to its first await or its return.  JSON.parse of an
\* unparseable snapshot throws outside the try block: buildStore rejects.
buildStore(j, force) ==
    IF LoadsCache(force)
    THEN IF cache.parseable
         THEN /\ STORE' = cache.chunks
              /\ cache' = cache
              /\ Return(j, [IdleJob EXCEPT !.pc = "loaded"],
                        Len(cache.chunks))
         ELSE /\ UNCHANGED <<STORE, cache>>
              /\ Exit(j, [IdleJob EXCEPT !.pc = "failed"])
    ELSE BeginBuild(j)

\* buildStore().then(...).catch(...) at process start.
Start ==
    /\ proc = "starting"
    /\ job[Main].pc = "idle"
    /\ buildStore(Main, FALSE)
    /\ UNCHANGED <<rev, envRebuild, chat, nreq, rk, ck>>

\* POST /api/admin/rebuild
Rebuild(r) ==
    /\ rev = "index"
    /\ proc = "listening"
    /\ nreq < MaxReq
    /\ job[r].pc # "embedding"
    /\ nreq' = nreq + 1
    /\ \E secretOk \in BOOLEAN :
        IF ~secretOk
        THEN /\ rebuildRes' = [rebuildRes EXCEPT ![r] =
                                  [status |-> 403, count |-> 0]]
             /\ UNCHANGED <<STORE, cache, proc, job>>
        ELSE buildStore(r, TRUE)
    /\ UNCHANGED <<rev, envRebuild, chat, rk, ck>>

----------------------------------------------------------------------------
(* POST /api/chat *)

Questions == {<<>>, <<"q">>}

StoreEmpty_Never == FALSE

\* if (STORE.length === 0)
StoreEmpty == Len(STORE) = 0

\* From the start of the handler to the await of embedOne(question).
ChatRequest(q) ==
    /\ proc = "listening"
    /\ nreq < MaxReq
    /\ chat[q].pc \in {"idle", "done"}
    /\ nreq' = nreq + 1
    /\ \E question \in Questions :
        IF question = <<>>
        THEN chat' = [chat EXCEPT ![q] =
                 [IdleChat EXCEPT !.pc = "done", !.status = 400,
                                  !.error = "question required"]]
        ELSE IF StoreEmpty
        THEN chat' = [chat EXCEPT ![q] =
                 [IdleChat EXCEPT !.pc = "done", !.status = 503,
                                  !.error = "Vector store not initialized yet"]]
        ELSE chat' = [chat EXCEPT ![q] = [IdleChat EXCEPT !.pc = "embedding"]]
    /\ UNCHANGED <<rev, envRebuild, STORE, cache, proc, job, rebuildRes,
                   rk, ck>>

\* if (!qEmb), present in src/index.ts only
RejectsEmbedding(e) == rev = "index" /\ e.st = "null"

\* embedOne(question) settles: the check of qEmb, the ranking over STORE and
\* the call of the chat model.
ChatEmbedded(q) ==
    /\ proc = "listening"
    /\ chat[q].pc = "embedding"
    /\ \E e \in embedOne :
        IF RejectsEmbedding(e)
        THEN chat' = [chat EXCEPT ![q] =
                 [IdleChat EXCEPT !.pc = "done", !.status = 500, !.qEmb = e,
                                  !.error = "Failed to embed question."]]
        ELSE IF RankThrows(STORE, e.v)
        THEN chat' = [chat EXCEPT ![q] =
                 [IdleChat EXCEPT !.pc = "done", !.status = 500, !.qEmb = e,
                                  !.error = "server error"]]
        ELSE chat' = [chat EXCEPT ![q] =
                 [IdleChat EXCEPT !.pc = "generating", !.qEmb = e,
                                  !.ranked = Ranked(STORE, e.v, TOP_K)]]
    /\ STORE' = AfterRank(STORE, chat'[q].qEmb.v)
    /\ UNCHANGED <<rev, envRebuild, cache, proc, job, rebuildRes, nreq, rk, ck>>

\* openai.chat.completions.create settles.
ChatGenerated(q) ==
    /\ proc = "listening"
    /\ chat[q].pc = "generating"
    /\ \E ok \in BOOLEAN :
        chat' = [chat EXCEPT ![q].pc = "done",
                             ![q].status = IF ok THEN 200 ELSE 500,
                             ![q].error = IF ok THEN "" ELSE "server error"]
    /\ UNCHANGED <<rev, envRebuild, STORE, cache, proc, job, rebuildRes,
                   nreq, rk, ck>>

----------------------------------------------------------------------------
(* The program *)

Next ==
    \/ Start
    \/ \E r \in RebuildIds : Rebuild(r)
    \/ \E j \in JobIds : \E i \in 1..Len(job[j].embeddings) : EmbedResolve(j, i)
    \/ \E q \in ChatIds : ChatRequest(q)
    \/ \E q \in ChatIds : ChatEmbedded(q)
    \/ \E q \in ChatIds : ChatGenerated(q)

Spec == Init /\ [][Next]_vars

----------------------------------------------------------------------------
(* The ranking step on its own, for every Collection, query vector and k *)

RankVecs ==
    {[i \in 1..Dim |-> IF i = 1 THEN a ELSE b] : a \in {-1, 0, 1, 2},
                                                  b \in {0, 1}}

RankLabels == <<"c1", "c2", "c3", "c4", "c5">>

\* The Collection whose i-th Chunk has the i-th embedding of es.
RankColl(es) ==
    [i \in 1..Len(es) |->
        [source |-> RankLabels[i], text |-> <<"a">>, embedding |-> es[i]]]

RankColls ==
    UNION {{RankColl(es) : es \in [1..n -> RankVecs]} : n \in 0..MaxRankLen}

InitRank ==
    /\ rev \in Revs
    /\ envRebuild = FALSE
    /\ STORE = <<>>
    /\ cache = NoFile
    /\ proc = "starting"
    /\ job = [j \in JobIds |-> IdleJob]
    /\ rebuildRes = [r \in RebuildIds |-> NoRes]
    /\ chat = [q \in ChatIds |-> IdleChat]
    /\ nreq = 0
    /\ ck = IdleChunk
    /\ \E coll \in RankColls, q \in RankVecs, k \in 0..MaxK :
        rk = [pc |-> "in", coll |-> coll, q |-> q, k |-> k, out |-> <<>>]

RankStep ==
    /\ rk.pc = "in"
    /\ rk' = [rk EXCEPT !.pc = "out", !.out = Ranked(rk.coll, rk.q, rk.k),
                         !.coll = AfterRank(rk.coll, rk.q)]
    /\ UNCHANGED <<rev, envRebuild, STORE, cache, proc, job, rebuildRes,
                   chat, nreq, ck>>

NextRank == RankStep

SpecRank == InitRank /\ [][NextRank]_vars

----------------------------------------------------------------------------
(* chunkText on its own, one loop iteration per step, for every text, size *)
(* and overlap                                                             *)

Texts == UNION {[1..n -> {"a", WS}] : n \in 0..MaxTextLen}

\* words.slice(start, end): a negative index counts from the end.
JsIndex(k, len) == IF k < 0 THEN (IF len + k < 0 THEN 0 ELSE len + k)
                   ELSE Min(k, len)

JsSlice(words, start, end) ==
    SubSeq(words, JsIndex(start, Len(words)) + 1, JsIndex(end, Len(words)))

InitChunk ==
    /\ rev \in Revs
    /\ envRebuild = FALSE
    /\ STORE = <<>>
    /\ cache = NoFile
    /\ proc = "starting"
    /\ job = [j \in JobIds |-> IdleJob]
    /\ rebuildRes = [r \in RebuildIds |-> NoRes]
    /\ chat = [q \in ChatIds |-> IdleChat]
    /\ nreq = 0
    /\ rk = IdleRank
    /\ \E text \in Texts, size \in 1..MaxSize, overlap \in 0..MaxOverlap :
        ck = [IdleChunk EXCEPT !.pc = "loop", !.words = Split(text),
                               !.size = size, !.overlap = overlap]

\* return out.filter(Boolean)
ChunkReturn ==
    ck' = [ck EXCEPT !.pc = "done", !.ret = FilterBoolean(ck.out)]

ChunkAdvance_NoOverlap(i, size, overlap) == i + size

\* i += (size - overlap)
ChunkAdvance(i, size, overlap) == i + (size - overlap)

\* The loop test and one run of the loop body; `at` keeps the value of i of
\* every push.
ChunkStep ==
    /\ ck.pc = "loop"
    /\ Len(ck.out) < MaxIter
    /\ IF ck.i < Len(ck.words)
       THEN LET w == Join(JsSlice(ck.words, ck.i, ck.i + ck.size))
                out == Append(ck.out, w)
                at == Append(ck.at, ck.i)
            IN  IF ck.i + ck.size >= Len(ck.words)
                THEN ck' = [ck EXCEPT !.pc = "done", !.out = out, !.at = at,
                                      !.ret = FilterBoolean(out)]
                ELSE ck' = [ck EXCEPT !.out = out, !.at = at,
                               !.i = ChunkAdvance(ck.i, ck.size, ck.overlap)]
       ELSE ChunkReturn
    /\ UNCHANGED <<rev, envRebuild, STORE, cache, proc, job, rebuildRes,
                   chat, nreq, rk>>

NextChunk == ChunkStep

SpecChunk == InitChunk /\ [][NextChunk]_vars

----------------------------------------------------------------------------
(* Steps and conditions the properties speak about *)

\* The buildStore(true) of rebuild request r ends in its catch block in this
\* step.
RebuildFails(r) ==
    /\ job'[r].pc = "failed"
    /\ job[r].pc = "embedding" \/ (Rebuild(r) /\ rebuildRes'[r].status # 403)

\* The buildStore call of j runs its first stretch in this step.
Begins(j) == IF j = Main THEN Start ELSE Rebuild(j)

\* Some buildStore call is between its start and its completion.
Loading == proc = "starting" \/ \E j \in JobIds : job[j].pc = "embedding"

\* Chat request q is accepted in this step with a non-empty question.
Asks(q) == ChatRequest(q) /\ chat'[q].status # 400

\* Chat request q runs its ranking step in this step.
Ranks(q) == chat[q].pc = "embedding" /\ chat'[q].pc = "generating"

\* Build j has all its embeddings but one, and e settles that one.
LastSettles(j, i, e) ==
    /\ job[j].pc = "embedding"
    /\ i \in 1..Len(job[j].embeddings)
    /\ job[j].embeddings[i] = Pending
    /\ AllResolved([job[j].embeddings EXCEPT ![i] = e])

\* STORE' is the whole result of a load or of a build all of whose embedding
\* calls have settled, or the empty array the catch block assigns.
WholeInstall ==
    \/ /\ proc = "starting"
       /\ job'[Main].pc = "loaded"
       /\ STORE' = cache.chunks
    \/ \E j \in JobIds :
        /\ job'[j].pc = "done"
        /\ \/ Begins(j) /\ STORE' = <<>>
           \/ \E i \in 1..Len(job[j].embeddings), e \in embedOne :
                /\ LastSettles(j, i, e)
                /\ STORE' = Batched(job[j].chunks,
                                    [job[j].embeddings EXCEPT ![i] = e])
    \/ \E j \in JobIds :
        /\ job'[j].pc = "failed"
        /\ job[j].pc = "embedding" \/ Begins(j)
        /\ STORE' = <<>>

----------------------------------------------------------------------------
(* Properties *)

\* C1: when a forced rebuild fails while a Collection is installed, STORE
\* stays equal to the previous Collection and the caller of the rebuild gets
\* a failure report, not a success response.
C1_FailedRebuildKeepsStore ==
    [][\A r \in RebuildIds :
          (RebuildFails(r) /\ STORE # <<>>)
              => (STORE' = STORE /\ rebuildRes'[r].status # 200)]_vars

\* C2: STORE is replaced only by one assignment of a whole Collection, made
\* after every embedding call of the build has settled; a rebuild in flight
\* leaves STORE alone, and a ranking step reads the STORE of one moment, so
\* no query observes a partially built Collection.
C2_AtomicSwap ==
    [][/\ STORE' # STORE => WholeInstall
       /\ \A q \in ChatIds :
            Ranks(q) => /\ STORE' = STORE
                        /\ chat'[q].ranked =
                               Ranked(STORE, chat'[q].qEmb.v, TOP_K)]_vars

\* A query has ranked over the installed Collection while a rebuild that
\* has settled some but not all of its embeddings is in flight.
C2_Witness ==
    \E r \in RebuildIds, q \in ChatIds :
        /\ job[r].pc = "embedding"
        /\ \E i, k \in 1..Len(job[r].embeddings) :
            job[r].embeddings[i] = Pending /\ job[r].embeddings[k] # Pending
        /\ chat[q].pc = "generating"
        /\ chat[q].ranked # <<>>
        /\ STORE # <<>>

\* C3: every Chunk a build installs in STORE or writes to the snapshot
\* carries an embedding returned by a successful provider call.
C3_NoPlaceholderEmbedding ==
    [][\A j \in JobIds :
          (job[j].pc = "embedding" /\ job'[j].pc = "done")
              => /\ \A i \in 1..Len(STORE') : STORE'[i].embedding \in Vecs
                 /\ \A i \in 1..Len(cache'.chunks) :
                        cache'.chunks[i].embedding \in Vecs]_vars

ZeroBuilt ==
    /\ STORE = <<>>
    /\ job[Main].pc \in {"done", "loaded"}
    /\ \A r \in RebuildIds : job[r].pc \in {"idle", "done"}

\* C5: once a build or load has completed with zero Chunks, a query is
\* answered as a normal zero-result retrieval, not with the not-ready
\* response.
C5_EmptyCollectionIsReady ==
    [][\A q \in ChatIds :
          (Asks(q) /\ ZeroBuilt) => chat'[q].status # 503]_vars

\* Structural validity of a persisted Chunk.
ValidChunk(c) == c.source # "" /\ c.text # <<>> /\ Len(c.embedding) = Dim

Corrupt(file) ==
    \/ ~file.parseable
    \/ \E i \in 1..Len(file.chunks) : ~ValidChunk(file.chunks[i])

\* C6: at startup with a snapshot present and no force flag, a corrupt
\* snapshot is a cache miss: the process does not exit, the corrupt data is
\* not installed and the rebuild runs.
C6_CorruptSnapshotIsMiss ==
    [][(Start /\ ~envRebuild /\ cache.exists /\ Corrupt(cache))
          => /\ proc' # "exited"
             /\ job'[Main].pc \in {"embedding", "done"}
             /\ \A i \in 1..Len(STORE') : ValidChunk(STORE'[i])]_vars

\* C7: if writing the snapshot fails after a build has produced a
\* Collection, the process keeps running and that Collection is installed.
C7_WriteFailureKeepsStore ==
    [][\A j \in JobIds :
          (job[j].pc = "embedding" /\ job'[j].pc = "failed")
              => /\ proc' # "exited"
                 /\ \E i \in 1..Len(job[j].embeddings), e \in embedOne :
                        /\ LastSettles(j, i, e)
                        /\ STORE' = Batched(job[j].chunks,
                               [job[j].embeddings EXCEPT ![i] = e])]_vars

\* C8: if the very first build, with no snapshot, fails outright, the
\* service never reaches the listening state.
C8_FirstBuildFailureIsFatal ==
    (job[Main].pc = "failed" /\ ~cache.exists) => proc # "listening"

\* The provider call for the question of q failed.
QuestionEmbeddingFailed(q) ==
    chat[q].qEmb = Null \/ chat[q].qEmb = Val(ZeroVec)

\* C9: if embedding the question fails, the query ends with the specific
\* error: no ranking, no generated answer, and a response other than the
\* not-ready one.
C9_QueryEmbeddingFailure ==
    \A q \in ChatIds :
        QuestionEmbeddingFailed(q)
            => /\ chat[q].pc = "done"
               /\ chat[q].status = 500
               /\ chat[q].error = "Failed to embed question."
               /\ chat[q].ranked = <<>>

----------------------------------------------------------------------------
(* The ranking step *)

\* Position of the i-th Chunk of coll in the stable descending order of the
\* scores against q.
RankPos(coll, q, i) ==
    LET s(n) == cosine(q, coll[n].embedding) IN
    1 + Cardinality({n \in 1..Len(coll) :
                        \/ ScoreCmp(s(n), s(i)) > 0
                        \/ ScoreCmp(s(n), s(i)) = 0 /\ n < i})

\* C10: the ranking step returns exactly the first min(k, |Collection|)
\* elements of the Collection in non-increasing score order, ties in
\* Collection order, each with its own score, and leaves the Collection as
\* it was.
C10_RankingIsStableTopK ==
    [][(rk.pc = "in" /\ rk'.pc = "out") =>
        LET coll == rk.coll
            out == rk'.out
        IN  /\ Len(out) = Min(rk.k, Len(coll))
            /\ \A i \in 1..Len(coll) :
                LET p == RankPos(coll, rk.q, i) IN
                p <= Len(out) =>
                    /\ out[p].source = coll[i].source
                    /\ out[p].text = coll[i].text
                    /\ out[p].embedding = coll[i].embedding
                    /\ out[p].score = cosine(rk.q, coll[i].embedding)
            /\ \A p \in 1..(Len(out) - 1) :
                ScoreCmp(out[p].score, out[p + 1].score) >= 0
            /\ rk'.coll = coll]_vars

\* A Collection longer than k with two Chunks of equal score has been
\* ranked, and the tie falls inside the result.
C10_Witness ==
    /\ rk.pc = "out"
    /\ Len(rk.coll) > rk.k
    /\ Len(rk.out) = 2
    /\ ScoreCmp(rk.out[1].score, rk.out[2].score) = 0
    /\ rk.out[1].embedding # rk.out[2].embedding
    /\ rk.out[1].source # rk.coll[1].source

----------------------------------------------------------------------------
(* Windows of chunkText, by the positions of the words they hold *)

\* Positions (1-based) in words of the words proper: split() also yields an
\* empty piece before leading and after trailing white space.
WordPos == {p \in 1..Len(ck.words) : ck.words[p] # <<>>}

\* Positions the k-th pushed window was sliced from.
Span(k) == {p \in 1..Len(ck.words) :
                ck.at[k] < p /\ p <= ck.at[k] + ck.size}

\* Pushed windows that survive filter(Boolean), i.e. the returned ones.
Kept == {k \in 1..Len(ck.out) : ck.out[k] # <<>>}

NextKept(k, l) == k \in Kept /\ l \in Kept /\ k < l
                  /\ \A m \in Kept : ~(k < m /\ m < l)

WordCount(text) == Cardinality({p \in 1..Len(Split(text)) :
                                    Split(text)[p] # <<>>})

\* C11: for a text of more words than the window size and an overlap below
\* the size, chunkText returns windows of at most `size` words each, every
\* two consecutive windows share exactly `overlap` words (the last pair
\* included), and every word of the text lies in some window.
C11_WindowsOverlapAndCover ==
    (ck.pc = "done" /\ Cardinality(WordPos) > ck.size /\ ck.overlap < ck.size)
    => /\ ck.ret = FilterBoolean(ck.out)
       /\ \A n \in 1..Len(ck.ret) : WordCount(ck.ret[n]) <= ck.size
       /\ \A k \in Kept : Cardinality(Span(k) \cap WordPos) <= ck.size
       /\ \A k, l \in Kept :
            NextKept(k, l)
            => Cardinality(Span(k) \cap Span(l) \cap WordPos) = ck.overlap
       /\ UNION {Span(k) : k \in Kept} \cap WordPos = WordPos

C11_Witness ==
    /\ ck.pc = "done"
    /\ Cardinality(WordPos) > ck.size
    /\ ck.overlap >= 1
    /\ ck.overlap < ck.size
    /\ Len(ck.ret) >= 3
    /\ ck.words[1] = <<>>

\* C12: chunkText terminates for every text, size and overlap: an iteration
\* of its loop that does not return moves i forward by a stride of at least
\* one, also when overlap >= size.
C12_LoopAdvances ==
    [][(ChunkStep /\ ck'.pc = "loop") => ck'.i > ck.i]_vars

\* text.trim() === ""
EmptyAfterTrim(text) == \A i \in 1..Len(text) : text[i] = WS

\* C13: embedOne is never called on a text that is empty after trimming:
\* every segment a build hands to the embedding fan-out holds a word, also
\* for entries whose text is empty or white space only.
C13_NoBlankSegmentEmbedded ==
    \A j \in JobIds :
        job[j].pc = "embedding"
        => \A i \in 1..Len(job[j].chunks) :
              ~EmptyAfterTrim(job[j].chunks[i].text)

\* The buildStore call of j is made in this step (a rebuild request with the
\* wrong secret makes none).
Calls(j) == IF j = Main THEN Start
            ELSE Rebuild(j) /\ rebuildRes'[j].status # 403

\* The force flag of that call: the rebuild endpoint passes true, the call
\* at start relies on REBUILD_STORE.
Forced(j) == j # Main \/ envRebuild

\* Build j runs to its successful end in this step.
Succeeds(j) == job'[j].pc = "done" /\ (job[j].pc = "embedding" \/ Calls(j))

\* C14: a buildStore call made with a snapshot present and no force flag
\* makes no embedding call, leaves the snapshot as it is and installs the
\* parsed snapshot as STORE; a call made with the force flag or with no
\* snapshot runs the Corpus Builder and installs nothing from the snapshot;
\* a build that runs to its successful end overwrites the snapshot with the
\* Collection it installs, and nothing else writes the snapshot.
C14_BuildExactlyWhenForcedOrMissing ==
    [][/\ \A j \in JobIds :
            /\ Calls(j) =>
                 IF ~Forced(j) /\ cache.exists
                 THEN /\ job'[j].pc \notin {"embedding", "done"}
                      /\ cache' = cache
                      /\ cache.parseable
                         => job'[j].pc = "loaded" /\ STORE' = cache.chunks
                 ELSE job'[j].pc \in {"embedding", "done", "failed"}
            /\ Succeeds(j) => cache' = File(STORE')
       /\ cache' # cache
          => \E j \in JobIds :
                /\ job[j].pc = "embedding" \/ Calls(j)
                /\ job'[j].pc \in {"done", "failed"}
                /\ Forced(j) \/ ~cache.exists \/ job[j].pc = "embedding"
      ]_vars

C14_Witness ==
    /\ job[Main].pc = "loaded"
    /\ job["r1"].pc = "done"
    /\ rebuildRes["r1"].status = 200
    /\ cache = File(STORE)
    /\ STORE # <<>>

\* The embedding call answered with a vector of the provider.
Succeeded(e) == e \in {Val(v) : v \in Vecs}

\* The segments whose call succeeded, in segment order, each with the vector
\* its own call returned.
RECURSIVE SucceededChunks(_, _)
SucceededChunks(chunks, embeddings) ==
    IF chunks = <<>> THEN <<>>
    ELSE (IF Succeeded(Head(embeddings))
          THEN <<[source |-> Head(chunks).source, text |-> Head(chunks).text,
                  embedding |-> Head(embeddings).v]>>
          ELSE <<>>)
         \o SucceededChunks(Tail(chunks), Tail(embeddings))

\* C15: whatever the order in which the embedding calls of a build settle
\* and whichever of them fail, the Collection the build installs is exactly
\* the segments whose call succeeded, in segment order, each with its own
\* embedding.
C15_InstallsExactlySucceeded ==
    [][\A j \in JobIds :
          (job[j].pc = "embedding" /\ job'[j].pc = "done")
          => \E i \in 1..Len(job[j].embeddings), e \in embedOne :
                /\ LastSettles(j, i, e)
                /\ STORE' = SucceededChunks(job[j].chunks,
                                [job[j].embeddings EXCEPT ![i] = e])
      ]_vars

\* The snapshot on disk holds the Chunks of STORE.
Consistent == cache.exists /\ cache.parseable /\ STORE = cache.chunks

\* The buildStore call of j installs the snapshot in this step.
Loads(j) == Calls(j) /\ job'[j].pc = "loaded"

\* The buildStore call of j ends in its catch block in this step.
Fails(j) == job'[j].pc = "failed" /\ (job[j].pc = "embedding" \/ Calls(j))

====
